---- MODULE Spec2Model ----
(***************************************************************************)
(* falun/watch: change detection by polling a target's content and         *)
(* comparing an MD5 fingerprint with the previously seen one.              *)
(*                                                                         *)
(* The model covers watcher.Updated (manual polling), watcher.targetDiff   *)
(* (the diff algorithm), byteSliceMatch, and the goroutine started by      *)
(* watcher.OnInterval together with its ticker, its cancel function and a  *)
(* consumer of its output channel.                                         *)
(*                                                                         *)
(* A Go select statement is modelled at the level of the language          *)
(* specification: when several of its communications can proceed, any one  *)
(* of them may be chosen.                                                  *)
(***************************************************************************)
EXTENDS Integers, Sequences, FiniteSets, TLC

\* The largest byte value a content holds.
MaxByte == 0
\* The counters of the observers saturate here ("that many or more").
MaxCount == 3
\* The longest byte slice handed to byteSliceMatch on its own.
MaxLen == 2

Byte == 0..MaxByte
\* The target holds an empty content or a content of one byte.
Contents == {<<>>} \cup {<<b>> : b \in Byte}
\* Two OnInterval calls are made on the Watcher, numbered in call order.
Loops == {1, 2}
\* The loop that the single-loop specifications run.
Solo == {1}

\* A nil []byte: lastHash before the first successful check.
Nil == <<>>

\* The byte slices byteSliceMatch is applied to on its own: nil, and every
\* slice of up to MaxLen bytes, each byte in 0..MaxLen; the digests of
\* Md5Sum are among them.
Slices == UNION {[1..n -> 0..MaxLen] : n \in 0..MaxLen}

Min(a, b) == IF a < b THEN a ELSE b

(***************************************************************************)
(* md5.Sum followed by contentSum[:]: a fixed-size, non-empty digest.  The *)
(* digest is taken as injective on the bounded content set: the length of  *)
(* the content followed by its byte (a zero byte for the empty content).   *)
(***************************************************************************)
Md5Sum(c) == <<Len(c), IF Len(c) = 0 THEN 0 ELSE c[1]>>

(***************************************************************************)
(* byteSliceMatch: false on different lengths, otherwise the loop over the *)
(* indices of a returns false at the first differing byte.                 *)
(***************************************************************************)
RECURSIVE matchFrom(_, _, _)
matchFrom(a, b, i) ==
    IF i > Len(a) THEN TRUE
    ELSE IF a[i] # b[i] THEN FALSE
    ELSE matchFrom(a, b, i + 1)

\* A comparison that stops at the length check.
byteSliceMatch_LengthOnly(a, b) == Len(a) = Len(b)

byteSliceMatch(a, b) ==
    IF Len(a) # Len(b) THEN FALSE ELSE matchFrom(a, b, 1)

VARIABLES
    failOpen,      \* watchedFile.failOpen: what Watched.FailOpen() returns
    content,       \* the bytes the target currently holds
    lastHash,      \* watcher.lastHash
    ret,           \* what the most recent Updated() call returned
    lastGood,      \* history: the content of the last successful Updated() fetch
    pc,            \* per loop: where the OnInterval goroutine stands
    loopLastHash,  \* per loop: the goroutine's local lastHash
    done,          \* per loop: the context's Done channel is closed
    tick,          \* per loop: a tick is waiting in ticker.C (capacity 1)
    recv,          \* per loop: a consumer is blocked receiving from the channel
    lastSeen,      \* history, per loop: the content of the last tick that emitted
    owed,          \* history, per loop: emissions attempted minus notifications delivered
    emits,         \* observer, per loop: emissions attempted (saturating)
    emitsBefore,   \* observer, per loop: emissions attempted before any content change
    changes,       \* observer, per loop: content changes since OnInterval (saturating)
    cancelAt,      \* observer, per loop: where the goroutine stood when cancel was first called
    firstEvent,    \* observer, per loop: which came first, a tick of the ticker or a cancel call
    cancels,       \* observer, per loop: calls of the cancel function (saturating)
    closes,        \* observer, per loop: executions of close(updatedCh) (saturating)
    sinceChange,   \* observer, per loop: emissions attempted since the content last changed
    changedIdle,   \* observer, per loop: the content has changed while the goroutine
                   \* was not blocked sending
    ticked,        \* observer, per loop: the outcomes of the last two ticks processed
                   \* and the content of the most recent successful tick fetch
    call,          \* observer: the circumstances of the most recent Updated() call
    argA,          \* the first argument of a byteSliceMatch call made on its own
    argB,          \* its second argument
    matched        \* what that call returned, once it has returned

vars == <<failOpen, content, lastHash, ret, lastGood, pc, loopLastHash, done,
          tick, recv, lastSeen, owed, emits, emitsBefore, changes, cancelAt,
          firstEvent, cancels, closes, sinceChange, changedIdle, ticked, call,
          argA, argB, matched>>

targetVars == <<failOpen, content>>
pollVars == <<lastHash, ret, lastGood>>
loopVars == <<pc, loopLastHash, done, tick, recv>>
loopHist == <<lastSeen, owed>>
loopObs == <<emits, emitsBefore, changes, cancelAt, firstEvent, cancels, closes,
            sinceChange, changedIdle, ticked>>
obsVars == <<emits, emitsBefore, changes, cancelAt, firstEvent, cancels, closes,
            sinceChange, changedIdle, ticked, call>>

matchVars == <<argA, argB, matched>>

\* No Updated() call has been made yet.
NoCall == [changed |-> FALSE, err |-> FALSE]

(***************************************************************************)
(* Watched.Content(): the current bytes, or an error.  Whether the read    *)
(* fails is the environment's choice at each call.                         *)
(***************************************************************************)
Content(ok) == [ok |-> ok, bytes |-> IF ok THEN content ELSE Nil]

\* A diff algorithm that hands the caller's token back on a fetch error.
targetDiff_KeepToken(token, fetch) ==
    IF ~fetch.ok
    THEN [hash |-> token, changed |-> failOpen, err |-> TRUE]
    ELSE LET hash == Md5Sum(fetch.bytes)
         IN  IF byteSliceMatch(hash, token)
             THEN [hash |-> token, changed |-> FALSE, err |-> FALSE]
             ELSE [hash |-> hash, changed |-> TRUE, err |-> FALSE]

\* A diff algorithm that never signals a change on a fetch error.
targetDiff_FailClosed(token, fetch) ==
    IF ~fetch.ok
    THEN [hash |-> Nil, changed |-> FALSE, err |-> TRUE]
    ELSE LET hash == Md5Sum(fetch.bytes)
         IN  IF byteSliceMatch(hash, token)
             THEN [hash |-> token, changed |-> FALSE, err |-> FALSE]
             ELSE [hash |-> hash, changed |-> TRUE, err |-> FALSE]

(***************************************************************************)
(* watcher.targetDiff(token), given the outcome of w.target.Content().     *)
(***************************************************************************)
targetDiff(token, fetch) ==
    IF ~fetch.ok
    THEN [hash |-> Nil, changed |-> failOpen, err |-> TRUE]
    ELSE LET hash == Md5Sum(fetch.bytes)
         IN  IF byteSliceMatch(hash, token)
             THEN [hash |-> token, changed |-> FALSE, err |-> FALSE]
             ELSE [hash |-> hash, changed |-> TRUE, err |-> FALSE]

\* An Updated that stores the returned hash whether or not the fetch failed.
UpdatedStore_Always(r) == r.hash

\* watcher.Updated: if err == nil { w.lastHash = newHash }
UpdatedStore(r) == IF ~r.err THEN r.hash ELSE lastHash

(***************************************************************************)
(* watcher.Updated(), with the outcome ok of Content().                    *)
(***************************************************************************)
UpdatedOn(ok) ==
    LET r == targetDiff(lastHash, Content(ok))
    IN  /\ lastHash' = UpdatedStore(r)
        /\ ret' = [changed |-> r.changed, err |-> r.err]
        /\ lastGood' = IF ok THEN {content} ELSE lastGood
        /\ UNCHANGED <<targetVars, loopVars, loopHist>>

Updated == \E ok \in BOOLEAN : UpdatedOn(ok)

(***************************************************************************)
(* The environment rewrites the target (the watched file is written).      *)
(***************************************************************************)
SetContent(c) ==
    /\ c # content
    /\ content' = c
    /\ UNCHANGED <<failOpen, pollVars, loopVars, loopHist>>

(***************************************************************************)
(* watcher.OnInterval(interval): creates the ticker, the unbuffered output *)
(* channel and the cancellable context, and starts the goroutine, which    *)
(* begins with a nil lastHash in front of its outer select.  Loops are     *)
(* numbered in the order of the OnInterval calls.                          *)
(***************************************************************************)
OnInterval(l) ==
    /\ pc[l] = "none"
    /\ \A m \in Loops : m < l => pc[m] # "none"
    /\ pc' = [pc EXCEPT ![l] = "select"]
    /\ loopLastHash' = [loopLastHash EXCEPT ![l] = Nil]
    /\ UNCHANGED <<targetVars, pollVars, done, tick, recv, loopHist>>

\* The ticker fires: ticker.C has room for one tick, a tick that finds it full is dropped.
TimerFire(l) ==
    /\ pc[l] # "none"
    /\ ~tick[l]
    /\ tick' = [tick EXCEPT ![l] = TRUE]
    /\ UNCHANGED <<targetVars, pollVars, pc, loopLastHash, done, recv, loopHist>>

\* A cancel function whose second call withdraws the signal.
Cancel_Toggle(l) ==
    /\ pc[l] # "none"
    /\ done' = [done EXCEPT ![l] = ~done[l]]
    /\ UNCHANGED <<targetVars, pollVars, pc, loopLastHash, tick, recv, loopHist>>

\* The caller calls the cancel function: ctx.Done() is closed, and stays
\* closed when it is called again.
Cancel(l) ==
    /\ pc[l] # "none"
    /\ done' = [done EXCEPT ![l] = TRUE]
    /\ UNCHANGED <<targetVars, pollVars, pc, loopLastHash, tick, recv, loopHist>>

\* An outer select that can end the for loop without a cancellation.
LoopDone_Unsignalled(l) ==
    /\ pc[l] = "select"
    /\ pc' = [pc EXCEPT ![l] = "close"]
    /\ UNCHANGED <<targetVars, pollVars, loopLastHash, done, tick, recv, loopHist>>

\* An outer select without the case <-done.
LoopDone_Missing(l) ==
    /\ pc[l] = "select"
    /\ FALSE
    /\ UNCHANGED <<targetVars, pollVars, loopVars, loopHist>>

\* Outer select, case <-done: cancelled = true, the for loop ends.
LoopDone(l) ==
    /\ pc[l] = "select"
    /\ done[l]
    /\ pc' = [pc EXCEPT ![l] = "close"]
    /\ UNCHANGED <<targetVars, pollVars, loopLastHash, done, tick, recv, loopHist>>

\* A goroutine that compares with the Watcher's lastHash instead of its own.
TickToken_Shared(l) == lastHash

\* The token the goroutine hands to targetDiff: its local lastHash.
TickToken(l) == loopLastHash[l]

\* A goroutine that emits on every tick whose fetch succeeds.
TickEmits_Always(r) == ~r.err

\* A goroutine that emits whenever the diff reports a change, error or not.
TickEmits_OnChanged(r) == r.changed

\* A goroutine that checks the target but never signals.
TickEmits_Never(r) == FALSE

\* if err == nil { if updated { ... <inner select> } }
TickEmits(r) == ~r.err /\ r.changed

\* A goroutine that never replaces its local lastHash.
TickStore_Keep(l, r) == loopLastHash[l]

\* lastHash = checkedHash
TickStore(l, r) == r.hash

\* A goroutine that also takes ticks while it waits in its inner select.
Tick_WhileSending(l, ok) ==
    /\ pc[l] \in {"select", "send"}
    /\ tick[l]
    /\ tick' = [tick EXCEPT ![l] = FALSE]
    /\ LET r == targetDiff(TickToken(l), Content(ok))
       IN  IF TickEmits(r)
           THEN /\ loopLastHash' = [loopLastHash EXCEPT ![l] = TickStore(l, r)]
                /\ pc' = [pc EXCEPT ![l] = "send"]
                /\ lastSeen' = [lastSeen EXCEPT ![l] = {content}]
                /\ owed' = [owed EXCEPT ![l] = @ + 1]
           ELSE UNCHANGED <<loopLastHash, pc, lastSeen, owed>>
    /\ UNCHANGED <<targetVars, pollVars, done, recv>>

(***************************************************************************)
(* Outer select, case <-ticker.C, with the outcome ok of Content(): one    *)
(* call of targetDiff on the local lastHash; on a change without error the *)
(* local lastHash is replaced and the goroutine enters the inner select.   *)
(***************************************************************************)
Tick(l, ok) ==
    /\ pc[l] = "select"
    /\ tick[l]
    /\ tick' = [tick EXCEPT ![l] = FALSE]
    /\ LET r == targetDiff(TickToken(l), Content(ok))
       IN  IF TickEmits(r)
           THEN /\ loopLastHash' = [loopLastHash EXCEPT ![l] = TickStore(l, r)]
                /\ pc' = [pc EXCEPT ![l] = "send"]
                /\ lastSeen' = [lastSeen EXCEPT ![l] = {content}]
                /\ owed' = [owed EXCEPT ![l] = @ + 1]
           ELSE UNCHANGED <<loopLastHash, pc, lastSeen, owed>>
    /\ UNCHANGED <<targetVars, pollVars, done, recv>>

LoopTick(l) == \E ok \in BOOLEAN : Tick(l, ok)

\* A channel with room: the send proceeds without a consumer.
SendReady_Buffered(l) == TRUE

\* Inner select, case updatedCh <- struct{}{}: the channel is unbuffered, the
\* send proceeds when a consumer is receiving.
SendReady(l) == recv[l]

SendDeliver(l) ==
    /\ pc[l] = "send"
    /\ SendReady(l)
    /\ pc' = [pc EXCEPT ![l] = "select"]
    /\ recv' = [recv EXCEPT ![l] = FALSE]
    /\ owed' = [owed EXCEPT ![l] = @ - 1]
    /\ UNCHANGED <<targetVars, pollVars, loopLastHash, done, tick, lastSeen>>

\* An inner select without the case <-done.
SendCancelled_Missing(l) ==
    /\ pc[l] = "send"
    /\ FALSE
    /\ UNCHANGED <<targetVars, pollVars, loopVars, loopHist>>

\* Inner select, case <-done: cancelled = true, the for loop ends.
SendCancelled(l) ==
    /\ pc[l] = "send"
    /\ done[l]
    /\ pc' = [pc EXCEPT ![l] = "close"]
    /\ UNCHANGED <<targetVars, pollVars, loopLastHash, done, tick, recv, loopHist>>

\* close(updatedCh), and the goroutine returns.
LoopClose(l) ==
    /\ pc[l] = "close"
    /\ pc' = [pc EXCEPT ![l] = "stopped"]
    /\ UNCHANGED <<targetVars, pollVars, loopLastHash, done, tick, recv, loopHist>>

\* A consumer starts to receive from the output channel.
ConsumerRecv(l) ==
    /\ pc[l] # "none"
    /\ ~recv[l]
    /\ recv' = [recv EXCEPT ![l] = TRUE]
    /\ UNCHANGED <<targetVars, pollVars, pc, loopLastHash, done, tick, loopHist>>

\* A receive from the closed channel returns at once.
RecvClosed(l) ==
    /\ pc[l] = "stopped"
    /\ recv[l]
    /\ recv' = [recv EXCEPT ![l] = FALSE]
    /\ UNCHANGED <<targetVars, pollVars, pc, loopLastHash, done, tick, loopHist>>

\* The output channel has been closed.
Closed(l) == pc[l] = "stopped"

WatchInit ==
    /\ failOpen \in BOOLEAN
    /\ content \in Contents
    /\ lastHash = Nil
    /\ ret = NoCall
    /\ lastGood = {}
    /\ pc = [l \in Loops |-> "none"]
    /\ loopLastHash = [l \in Loops |-> Nil]
    /\ done = [l \in Loops |-> FALSE]
    /\ tick = [l \in Loops |-> FALSE]
    /\ recv = [l \in Loops |-> FALSE]
    /\ lastSeen = [l \in Loops |-> {}]
    /\ owed = [l \in Loops |-> 0]
    /\ emits = [l \in Loops |-> 0]
    /\ emitsBefore = [l \in Loops |-> 0]
    /\ changes = [l \in Loops |-> 0]
    /\ cancelAt = [l \in Loops |-> ""]
    /\ firstEvent = [l \in Loops |-> ""]
    /\ cancels = [l \in Loops |-> 0]
    /\ closes = [l \in Loops |-> 0]
    /\ sinceChange = [l \in Loops |-> 0]
    /\ changedIdle = [l \in Loops |-> FALSE]
    /\ ticked = [l \in Loops |-> [prev |-> "", last |-> "", got |-> {}]]
    /\ call = [n |-> 0, ok |-> FALSE, clean |-> TRUE, prevErr |-> FALSE,
               prev |-> {}, got |-> {}, hashBefore |-> Nil, hash |-> Nil]

\* A new Watcher; byteSliceMatch is not called on its own.
Init ==
    /\ WatchInit
    /\ argA = Nil
    /\ argB = Nil
    /\ matched = {}

\* byteSliceMatch is about to be called on two slices.
MatchInit ==
    /\ WatchInit
    /\ argA \in Slices
    /\ argB \in Slices
    /\ matched = {}

\* The call byteSliceMatch(argA, argB) returns.
Compare ==
    /\ matched = {}
    /\ matched' = {byteSliceMatch(argA, argB)}
    /\ UNCHANGED <<targetVars, pollVars, loopVars, loopHist, obsVars, argA, argB>>

\* No observer is recording.
Unobserved == UNCHANGED <<obsVars, matchVars>>

(***************************************************************************)
(* The polling observer, for the Updated() call of this step: the number   *)
(* of calls so far (saturating), whether its fetch succeeded, whether all  *)
(* fetches so far succeeded, whether the call before it failed, the        *)
(* content of the last successful fetch before it, the content it fetched, *)
(* lastHash as the call found it and the hash its targetDiff returned.     *)
(***************************************************************************)
ObservePoll(ok) ==
    /\ call' = [n |-> Min(call.n + 1, MaxCount),
                ok |-> ok,
                clean |-> call.clean /\ ok,
                prevErr |-> call.n > 0 /\ ~call.ok,
                prev |-> lastGood,
                got |-> IF ok THEN {content} ELSE {},
                hashBefore |-> lastHash,
                hash |-> targetDiff(lastHash, Content(ok)).hash]
    /\ UNCHANGED <<loopObs, matchVars>>

(***************************************************************************)
(* What the loop observer reads off any step: for each started loop, the   *)
(* content changes since its OnInterval call, the ticks that entered the   *)
(* inner select, those of them that came before any content change, where  *)
(* the goroutine stood when its cancel function was first called, which of *)
(* the ticker's first tick and the first cancel call came first, the       *)
(* executions of close(updatedCh), the ticks that entered the inner select *)
(* since the content last changed, and whether the content has changed     *)
(* while the started goroutine was not in its inner select.                *)
(***************************************************************************)
ObserveStep ==
    /\ changes' = [l \in Loops |->
                     IF pc[l] # "none" /\ content' # content
                     THEN Min(changes[l] + 1, MaxCount) ELSE changes[l]]
    /\ emits' = [l \in Loops |->
                   IF pc[l] = "select" /\ pc'[l] = "send"
                   THEN Min(emits[l] + 1, MaxCount) ELSE emits[l]]
    /\ emitsBefore' = [l \in Loops |->
                         IF pc[l] = "select" /\ pc'[l] = "send" /\ changes[l] = 0
                         THEN Min(emitsBefore[l] + 1, MaxCount) ELSE emitsBefore[l]]
    /\ cancelAt' = [l \in Loops |->
                      IF ~done[l] /\ done'[l] THEN pc[l] ELSE cancelAt[l]]
    /\ firstEvent' = [l \in Loops |->
                        IF firstEvent[l] # "" THEN firstEvent[l]
                        ELSE IF ~tick[l] /\ tick'[l] THEN "tick"
                        ELSE IF ~done[l] /\ done'[l] THEN "cancel"
                        ELSE ""]
    /\ closes' = [l \in Loops |->
                    IF pc[l] = "close" /\ pc'[l] # "close"
                    THEN Min(closes[l] + 1, MaxCount) ELSE closes[l]]
    /\ UNCHANGED matchVars
    /\ sinceChange' = [l \in Loops |->
                         IF content' # content THEN 0
                         ELSE IF pc[l] = "select" /\ pc'[l] = "send"
                         THEN Min(sinceChange[l] + 1, MaxCount)
                         ELSE sinceChange[l]]
    /\ changedIdle' = [l \in Loops |->
                         \/ changedIdle[l]
                         \/ pc[l] \notin {"none", "send"} /\ content' # content]
    /\ UNCHANGED call

\* The loop observer on a step that is neither a call of a cancel function
\* nor a tick taken by a goroutine.
ObserveLoop == ObserveStep /\ UNCHANGED <<cancels, ticked>>

\* The loop observer on a call of the cancel function of loop l.
ObserveCancel(l) ==
    /\ ObserveStep
    /\ cancels' = [cancels EXCEPT ![l] = Min(@ + 1, MaxCount)]
    /\ UNCHANGED ticked

\* The loop observer on a tick taken by the goroutine of loop l, with the
\* outcome ok of its Content() call.
ObserveTick(l, ok) ==
    /\ ObserveStep
    /\ ticked' = [ticked EXCEPT ![l] =
                     [prev |-> @.last,
                      last |-> IF ok THEN "ok" ELSE "err",
                      got |-> IF ok THEN {content} ELSE @.got]]
    /\ UNCHANGED cancels

(***************************************************************************)
(* The program: manual polling, both loops with their tickers, cancel      *)
(* functions and consumers, and the environment rewriting the target.      *)
(***************************************************************************)
Next ==
    \/ Updated /\ Unobserved
    \/ \E c \in Contents : SetContent(c) /\ Unobserved
    \/ \E l \in Loops : OnInterval(l) /\ Unobserved
    \/ \E l \in Loops : TimerFire(l) /\ Unobserved
    \/ \E l \in Loops : Cancel(l) /\ Unobserved
    \/ \E l \in Loops : LoopDone(l) /\ Unobserved
    \/ \E l \in Loops : LoopTick(l) /\ Unobserved
    \/ \E l \in Loops : SendDeliver(l) /\ Unobserved
    \/ \E l \in Loops : SendCancelled(l) /\ Unobserved
    \/ \E l \in Loops : LoopClose(l) /\ Unobserved
    \/ \E l \in Loops : ConsumerRecv(l) /\ Unobserved
    \/ \E l \in Loops : RecvClosed(l) /\ Unobserved

Spec == Init /\ [][Next]_vars

(***************************************************************************)
(* Manual polling alone, with the polling observer recording.              *)
(***************************************************************************)
PollNext ==
    \/ \E ok \in BOOLEAN : UpdatedOn(ok) /\ ObservePoll(ok)
    \/ \E c \in Contents : SetContent(c) /\ Unobserved

PollSpec == Init /\ [][PollNext]_vars

(***************************************************************************)
(* One loop running alone, with the loop observer recording.               *)
(***************************************************************************)
LoopNext ==
    \/ \E c \in Contents : SetContent(c) /\ ObserveLoop
    \/ \E l \in Solo : OnInterval(l) /\ ObserveLoop
    \/ \E l \in Solo : TimerFire(l) /\ ObserveLoop
    \/ \E l \in Solo : Cancel(l) /\ ObserveCancel(l)
    \/ \E l \in Solo : LoopDone(l) /\ ObserveLoop
    \/ \E l \in Solo : \E ok \in BOOLEAN : Tick(l, ok) /\ ObserveTick(l, ok)
    \/ \E l \in Solo : SendDeliver(l) /\ ObserveLoop
    \/ \E l \in Solo : SendCancelled(l) /\ ObserveLoop
    \/ \E l \in Solo : LoopClose(l) /\ ObserveLoop
    \/ \E l \in Solo : ConsumerRecv(l) /\ ObserveLoop
    \/ \E l \in Solo : RecvClosed(l) /\ ObserveLoop

LoopSpec == Init /\ [][LoopNext]_vars

(***************************************************************************)
(* Go's select chooses uniformly at random among the communications that   *)
(* can proceed, so a cancellation case that stays ready is chosen in the   *)
(* end; the goroutine, once out of its for loop, is scheduled to close.    *)
(***************************************************************************)
LoopFairness ==
    \A l \in Solo :
        /\ WF_vars((LoopDone(l) \/ SendCancelled(l)) /\ ObserveLoop)
        /\ WF_vars(LoopClose(l) /\ ObserveLoop)

FairLoopSpec == LoopSpec /\ LoopFairness

(***************************************************************************)
(* One loop running alone on a target whose fetches all succeed, with the  *)
(* loop observer recording.                                                *)
(***************************************************************************)
ScenarioNext ==
    \/ \E c \in Contents : SetContent(c) /\ ObserveLoop
    \/ \E l \in Solo : OnInterval(l) /\ ObserveLoop
    \/ \E l \in Solo : TimerFire(l) /\ ObserveLoop
    \/ \E l \in Solo : Cancel(l) /\ ObserveCancel(l)
    \/ \E l \in Solo : LoopDone(l) /\ ObserveLoop
    \/ \E l \in Solo : Tick(l, TRUE) /\ ObserveTick(l, TRUE)
    \/ \E l \in Solo : SendDeliver(l) /\ ObserveLoop
    \/ \E l \in Solo : SendCancelled(l) /\ ObserveLoop
    \/ \E l \in Solo : LoopClose(l) /\ ObserveLoop
    \/ \E l \in Solo : ConsumerRecv(l) /\ ObserveLoop
    \/ \E l \in Solo : RecvClosed(l) /\ ObserveLoop

ScenarioSpec == Init /\ [][ScenarioNext]_vars

(***************************************************************************)
(* One loop that is never cancelled, on a target whose fetches all         *)
(* succeed, with the loop observer recording.  The ticker fires again and  *)
(* again, the goroutine is scheduled when it can take a tick or hand over  *)
(* a notification, and the consumer (for range ch) comes back to receive.  *)
(***************************************************************************)
LiveNext ==
    \/ \E c \in Contents : SetContent(c) /\ ObserveLoop
    \/ \E l \in Solo : OnInterval(l) /\ ObserveLoop
    \/ \E l \in Solo : TimerFire(l) /\ ObserveLoop
    \/ \E l \in Solo : Tick(l, TRUE) /\ ObserveTick(l, TRUE)
    \/ \E l \in Solo : SendDeliver(l) /\ ObserveLoop
    \/ \E l \in Solo : ConsumerRecv(l) /\ ObserveLoop

LiveFairness ==
    \A l \in Solo :
        /\ WF_vars(TimerFire(l) /\ ObserveLoop)
        /\ WF_vars(Tick(l, TRUE) /\ ObserveTick(l, TRUE))
        /\ WF_vars(SendDeliver(l) /\ ObserveLoop)
        /\ WF_vars(ConsumerRecv(l) /\ ObserveLoop)

LiveSpec == Init /\ [][LiveNext]_vars /\ LiveFairness

(***************************************************************************)
(* byteSliceMatch on its own, applied to any two slices.                   *)
(***************************************************************************)
MatchNext == Compare

MatchSpec == MatchInit /\ [][MatchNext]_vars

(***************************************************************************)
(* Properties of manual polling.                                           *)
(***************************************************************************)
\* The fingerprint of an optional content: nil when there is none.
FingerprintOf(o) == IF o = {} THEN Nil ELSE Md5Sum(CHOOSE c \in o : TRUE)

\* C1: the first Updated() call on a new Watcher returns changed = true,
\* whatever the target's fail-open setting and the outcome of Content().
C1_FirstCallChanged == call.n = 1 => ret.changed

\* C2: while all fetches succeed, a call returns (true, nil) exactly when it is
\* the first call or the content it fetched differs from the content the
\* previous call fetched, and (false, nil) otherwise.
C2_ChangedIffContentDiffers ==
    (call.n >= 1 /\ call.clean) =>
        /\ ~ret.err
        /\ ret.changed = (call.n = 1 \/ call.got # call.prev)

\* Three successful calls, the last one on a content that differs from the one before.
C2_Witness ==
    /\ call.n = MaxCount
    /\ call.clean
    /\ call.prev # {}
    /\ call.got # call.prev
    /\ ret.changed

C4_ErrorKeepsLastHash ==
    /\ (call.n >= 1 /\ ret.err) => lastHash = call.hashBefore
    /\ (call.ok /\ call.prevErr /\ call.prev # {}) =>
          /\ ~ret.err
          /\ ret.changed = (call.got # call.prev)

\* Success, then failure, then success on the same content: unchanged.
C4_Witness ==
    /\ call.ok
    /\ call.prevErr
    /\ call.prev # {}
    /\ call.got = call.prev
    /\ ~ret.changed
    /\ ~ret.err

\* C5: lastHash is nil exactly as long as no Updated() call has succeeded, and
\* otherwise is the fingerprint of the content of the most recent successful
\* fetch; a failed fetch never sets it.
C5_LastHashIsLastGood ==
    /\ lastHash = FingerprintOf(lastGood)
    /\ (lastHash = Nil) = (lastGood = {})

\* A failed call after a successful one, the content having changed in between.
C5_Witness ==
    /\ lastGood # {}
    /\ lastGood # {content}
    /\ ret.err
    /\ lastHash = FingerprintOf(lastGood)

(***************************************************************************)
(* Properties of the interval loops.                                       *)
(***************************************************************************)
\* C6: manual polling and the loops do not interfere.  A step that changes the
\* polling state changes no loop's state; a step that changes one loop's
\* private lastHash changes neither the Watcher's lastHash nor another loop's;
\* and each result depends on its own history alone: a successful Updated()
\* reports a change exactly when the content differs from the one Updated()
\* last fetched, a successful tick emits exactly when the content differs from
\* the one that loop last emitted for.
C6_NoInterference ==
    [][/\ pollVars' # pollVars => UNCHANGED <<loopVars, loopHist>>
       /\ UpdatedOn(TRUE) => ret'.changed = ({content} # lastGood)
       /\ \A l \in Loops :
            /\ loopLastHash'[l] # loopLastHash[l] =>
                  /\ UNCHANGED pollVars
                  /\ \A m \in Loops \ {l} : loopLastHash'[m] = loopLastHash[m]
            /\ Tick(l, TRUE) => (pc'[l] = "send") = ({content} # lastSeen[l])]_vars

\* Both loops and the Watcher hold a fingerprint, and the three are not the same.
C6_Witness ==
    \E l \in Loops : \E m \in Loops :
        /\ loopLastHash[l] # Nil
        /\ loopLastHash[m] # Nil
        /\ lastHash # Nil
        /\ loopLastHash[l] # loopLastHash[m]
        /\ lastHash # loopLastHash[l]
        /\ ret.changed
        /\ pc[m] = "send"

\* The loop has fetched the content the target now holds.
CaughtUp(l) == loopLastHash[l] = Md5Sum(content)

\* Notifications delivered on the channel of loop l.
Delivered(l) == emits[l] - owed[l]

\* C7: on a target whose fetches succeed and whose content changes exactly
\* once after the loop starts, no notification is emitted at a tick before the
\* change, and once the loop has seen the change and nothing is pending,
\* exactly one notification has been delivered in total, before and after the
\* channel is closed.
C7_OneNotification ==
    \A l \in Solo :
        changes[l] = 1 =>
            /\ emitsBefore[l] = 0
            /\ (CaughtUp(l) /\ owed[l] = 0) => Delivered(l) = 1

\* C8: within one loop the notifications delivered never exceed the ticks that
\* detected a change, a delivery takes one pending emission, and a tick emits
\* only on a content that differs from the one of the loop's previous emission.
C8_AtMostOncePerChange ==
    [][\A l \in Solo :
          /\ Delivered(l)' <= emits'[l]
          /\ owed'[l] < owed[l] => pc[l] = "send" /\ owed'[l] = owed[l] - 1
          /\ owed'[l] > owed[l] =>
                /\ pc[l] = "select" /\ pc'[l] = "send"
                /\ lastSeen'[l] = {content}
                /\ lastSeen[l] # {content}
          /\ lastSeen'[l] # lastSeen[l] => owed'[l] = owed[l] + 1]_vars

\* Two emissions, both delivered.
C8_Witness ==
    \E l \in Solo : emits[l] = 2 /\ owed[l] = 0 /\ pc[l] = "select"

\* C9: once cancel has been called the channel is eventually closed, whether
\* the goroutine waits for a tick or is blocked sending, consumer or not.
C9_CancelLeadsToClose == \A l \in Solo : done[l] ~> Closed(l)

\* Cancel was called while the goroutine was blocked sending, nothing was ever
\* delivered, and the channel is closed.
C9_Witness ==
    \E l \in Solo :
        /\ cancelAt[l] = "send"
        /\ Closed(l)
        /\ emits[l] = 1
        /\ owed[l] = 1

\* C10 as stated: if cancel is called while an emission is pending, that
\* notification is not delivered.
C10_CancelAlwaysWins ==
    [][\A l \in Solo :
          (cancelAt[l] = "send" /\ pc[l] = "send") =>
              /\ owed'[l] = owed[l]
              /\ pc'[l] \in {"send", "close"}]_vars

\* C10 amended: once cancel has been called, a pending send can always be
\* abandoned; if no consumer is receiving, abandoning it is all the goroutine
\* can do, and the notification is not delivered; the notification is
\* delivered only to a consumer that is receiving.
C10_CancelPreemptsBlockedSend ==
    [][\A l \in Solo :
          (pc[l] = "send" /\ done[l]) =>
              /\ ENABLED (SendCancelled(l) /\ ObserveLoop)
              /\ ~recv[l] => owed'[l] = owed[l] /\ pc'[l] \in {"send", "close"}
              /\ owed'[l] # owed[l] => recv[l] /\ pc'[l] = "select"]_vars

\* Cancel was called during a blocked send and won against a consumer that was
\* ready to receive.
C10_Witness ==
    \E l \in Solo :
        /\ cancelAt[l] = "send"
        /\ pc[l] = "close"
        /\ recv[l]
        /\ owed[l] = 1

\* C11 as stated: if cancel is called before any tick has fired, no
\* notification is ever emitted, under every interleaving.
C11_CancelFirstNoEmission ==
    \A l \in Solo : firstEvent[l] = "cancel" => emits[l] = 0

\* C11 amended: if cancel is called before any tick has fired, then as long as
\* no tick is waiting the goroutine in front of its outer select can leave it
\* by the cancellation alone, and it can; once out of the for loop it emits
\* nothing more; a notification is emitted only by a tick that fired after
\* the cancel call and that the outer select chose against the cancellation.
C11_CancelFirstEmitsOnlyByLateTick ==
    [][\A l \in Solo :
          firstEvent[l] = "cancel" =>
              /\ (pc[l] = "select" /\ ~tick[l]) =>
                    /\ ENABLED (LoopDone(l) /\ ObserveLoop)
                    /\ pc'[l] \in {"select", "close"}
              /\ pc[l] \in {"close", "stopped"} => emits'[l] = emits[l]
              /\ emits'[l] # emits[l] =>
                    pc[l] = "select" /\ done[l] /\ tick[l]]_vars

\* Cancel came first, a tick fired after it and was left waiting, and the
\* channel is closed without any emission.
C11_Witness ==
    \E l \in Solo :
        /\ firstEvent[l] = "cancel"
        /\ tick[l]
        /\ Closed(l)
        /\ emits[l] = 0

\* C12: the cancel function can be called at any time after OnInterval,
\* stopped loop included, and never has to wait; a call that follows another
\* changes nothing in the program; the cancellation signal is never
\* withdrawn; a stopped loop stays stopped, emits nothing and delivers
\* nothing on the closed channel; and the channel is closed at most once.
C12_StoppedTerminalCancelIdempotent ==
    [][\A l \in Solo :
          /\ pc[l] # "none" => ENABLED (Cancel(l) /\ ObserveCancel(l))
          /\ (done[l] /\ Cancel(l)) =>
                UNCHANGED <<targetVars, pollVars, loopVars, loopHist>>
          /\ done[l] => done'[l]
          /\ Closed(l) =>
                /\ Closed(l)'
                /\ loopLastHash'[l] = loopLastHash[l]
                /\ owed'[l] = owed[l]
                /\ emits'[l] = emits[l]
          /\ closes'[l] <= 1]_vars

\* The cancel function has been called several times, a notification was
\* delivered before the loop stopped, and the channel was closed once.
C12_Witness ==
    \E l \in Solo :
        /\ cancels[l] = MaxCount
        /\ Closed(l)
        /\ closes[l] = 1
        /\ Delivered(l) >= 1

C14_FailOpenErrorEmits ==
    [][\A l \in Solo :
          (failOpen /\ Tick(l, FALSE)) =>
              /\ pc'[l] = "send"
              /\ owed'[l] = owed[l] + 1]_vars

\* C15: the goroutine leaves its for loop only when its cancel function has
\* been called, from the outer select or from a blocked send; it stops only
\* by closing the channel after it has left the for loop; so whatever ticks,
\* fetch errors and deliveries occur, without a cancel call the loop is
\* neither out of its for loop nor stopped.
C15_ClosedOnlyAfterCancel ==
    [][\A l \in Solo :
          /\ (pc'[l] = "close" /\ pc[l] # "close") =>
                /\ done[l]
                /\ cancels[l] >= 1
                /\ pc[l] \in {"select", "send"}
          /\ (Closed(l)' /\ ~Closed(l)) =>
                /\ pc[l] = "close"
                /\ closes'[l] = closes[l] + 1
          /\ cancels'[l] = 0 => pc'[l] \in {"none", "select", "send"}]_vars

\* After a delivery and a failed tick, one cancel call has stopped the loop.
C15_Witness ==
    \E l \in Solo :
        /\ Closed(l)
        /\ cancels[l] = 1
        /\ ticked[l].last = "err"
        /\ Delivered(l) >= 1

C18_BlockedSendTakesNoTick ==
    /\ [](\A l \in Solo :
             /\ owed[l] \in {0, 1}
             /\ pc[l] = "send" => owed[l] = 1
             /\ sinceChange[l] <= 1)
    /\ [][\A l \in Solo :
             pc[l] = "send" =>
                 /\ loopLastHash'[l] = loopLastHash[l]
                 /\ ticked'[l] = ticked[l]
                 /\ tick[l] => tick'[l]
                 /\ emits'[l] = emits[l]
                 /\ pc'[l] \in {"send", "select", "close"}
                 /\ pc'[l] = "select" => recv[l] /\ owed'[l] = 0
                 /\ pc'[l] = "close" => done[l]]_vars

\* The content changed twice or more, every time while the first send was
\* blocked; the send completed and the next tick emitted once more.
C18_Witness ==
    \E l \in Solo :
        /\ changes[l] >= 2
        /\ ~changedIdle[l]
        /\ emits[l] = 2
        /\ sinceChange[l] = 1
        /\ pc[l] = "send"

\* C19: in a loop that is never cancelled, on a target whose fetches succeed,
\* with the ticker firing and the consumer coming back to receive: once the
\* content has changed, either it changes again or a tick emits for the
\* content the target now holds and that notification is delivered.
C19_ChangeEventuallyDelivered ==
    \A l \in Solo : \A c \in Contents :
        (pc[l] # "none" /\ changes[l] >= 1 /\ content = c)
            ~> (content # c \/ (lastSeen[l] = {c} /\ owed[l] = 0))

\* The content has changed since the first emission, a later tick has emitted
\* for the content the target holds, and both notifications were delivered.
C19_Witness ==
    \E l \in Solo :
        /\ changes[l] >= 1
        /\ emits[l] = 2
        /\ emitsBefore[l] = 1
        /\ sinceChange[l] = 1
        /\ lastSeen[l] = {content}
        /\ owed[l] = 0
        /\ cancels[l] = 0

(***************************************************************************)
(* Properties of the diff algorithm and of the comparison.                 *)
(***************************************************************************)
\* C16 as stated: when the fetch fails, targetDiff returns the token it was
\* given as the fingerprint, changed = FailOpen(), and the error.
C16_ErrorReturnsToken ==
    (call.n >= 1 /\ ~call.ok) =>
        /\ call.hash = call.hashBefore
        /\ ret.changed = failOpen
        /\ ret.err

\* C16 amended: when the fetch fails, targetDiff returns a nil fingerprint,
\* whatever token it was given, with changed = FailOpen() and the error;
\* Updated() does not store it, so lastHash is as the call found it.
C16_ErrorReturnsNil ==
    (call.n >= 1 /\ ~call.ok) =>
        /\ call.hash = Nil
        /\ ret.changed = failOpen
        /\ ret.err
        /\ lastHash = call.hashBefore

\* A fetch failed on a fail-open target while the Watcher held a fingerprint.
C16_Witness ==
    /\ call.n >= 2
    /\ ~call.ok
    /\ call.hashBefore # Nil
    /\ call.hash = Nil
    /\ lastHash # Nil
    /\ failOpen

\* C20: byteSliceMatch(a, b) returns, and returns true exactly when a and b
\* have the same length and the same byte at every index; on slices of
\* different lengths, a digest against a nil token among them, it returns
\* false.
C20_MatchIffSameBytes ==
    /\ matched = {} => ENABLED Compare
    /\ matched # {} =>
          /\ matched = {/\ Len(argA) = Len(argB)
                        /\ \A i \in 1..Len(argA) : argA[i] = argB[i]}
          /\ Len(argA) # Len(argB) => matched = {FALSE}

\* A slice of full length was compared with the nil token: different.
C20_Witness ==
    /\ Len(argA) = MaxLen
    /\ argB = Nil
    /\ matched = {FALSE}
====
